---- MODULE Spec2Model ----
(***************************************************************************)
(* The VibeCode workflow enforcement scripts (scripts/enforcement) as a    *)
(* state machine.  Every hook and every CLI command is a short-lived       *)
(* process: it builds a StateManager (which loads the durable document),   *)
(* runs its handler and exits.  One action of the model is one such        *)
(* invocation, from get_manager() to sys.exit.                             *)
(*                                                                         *)
(* Python values are modelled as follows.  A dict is a record (a function  *)
(* on its keys), so that d.get(k, v) and {**a, **b} keep their meaning for *)
(* documents that lack keys.  A list is a sequence.  An Optional value is  *)
(* a sequence of length at most one: None is << >> and the value v is      *)
(* << v >>.  A text that the code only builds (a reason, a history         *)
(* message) is the sequence of the parts of its f-string.  A text that the *)
(* code scans (a task subject, a step argument) is a sequence of           *)
(* characters.  datetime.now() is the number of the running invocation.    *)
(*                                                                         *)
(* Where invocations overlap or can be killed, a process is followed one   *)
(* file operation at a time: the load, each append to the history log, and *)
(* the two halves of a save (open(STATE_FILE, 'w') empties the file, the   *)
(* dump then fills it).                                                    *)
(***************************************************************************)
EXTENDS Integers, Sequences, FiniteSets, TLC

VARIABLES
    disk,          \* STATE_FILE: [status, text]
    history_file,  \* HISTORY_FILE: the lines of step-history.jsonl
    backups,       \* BACKUP_DIR: the set of backup files [name, text]
    context_pack,  \* CONTEXT_PACK_FILE.exists()
    loaded,        \* manager.state as _load_state returned it in the last invocation
    state,         \* manager.state when the last invocation exited
    last,          \* what the last invocation was and how it ended
    calls,         \* number of invocations so far (the clock)
    tally,         \* how many of them were mutating calls, by kind
    running        \* the processes in flight, where invocations overlap or are killed

vars == <<disk, history_file, backups, context_pack, loaded, state, last, calls, tally, running>>

(***************************************************************************)
(* Bounds of the model.                                                    *)
(***************************************************************************)
\* invocations in one behaviour
MaxCalls == 3

\* words in a task subject given to the inference
MaxWords == 2

(***************************************************************************)
(* Python helpers.                                                         *)
(***************************************************************************)
None == << >>

Some(v) == << v >>

\* d.get(k, dflt)
Get(d, k, dflt) == IF k \in DOMAIN d THEN d[k] ELSE dflt

\* d[k] = v, on a dict that may or may not hold k
Put(d, k, v) == (k :> v) @@ d

Range(s) == { s[i] : i \in DOMAIN s }

IsPrefix(s, t) == Len(s) <= Len(t) /\ SubSeq(t, 1, Len(s)) = s

(***************************************************************************)
(* config.py                                                               *)
(***************************************************************************)
MaxStep == 15

Step(name, artifacts, gate, edit) ==
    [name |-> name, required_artifacts |-> artifacts, gate |-> gate, allows_code_edit |-> edit]

STEPS ==
    ( 0 :> Step("Problem Statement", {}, "none", FALSE)) @@
    ( 1 :> Step("Discovery Q&A", {}, "none", FALSE)) @@
    ( 2 :> Step("Write spec.md", {"spec.md"}, "user_approval", FALSE)) @@
    ( 3 :> Step("Generate plan.md", {"plan.md"}, "subagent_critique", FALSE)) @@
    ( 4 :> Step("Plan Critique", {}, "none", FALSE)) @@
    ( 5 :> Step("Rules & Guardrails", {"rules.md"}, "none", FALSE)) @@
    ( 6 :> Step("Select Bead/Task", {}, "task_selected", FALSE)) @@
    ( 7 :> Step("Context Packing", {"context-pack.md"}, "context_exists", FALSE)) @@
    ( 8 :> Step("Implementation", {}, "context_pack_verified", TRUE)) @@
    ( 9 :> Step("Run Tests/Checks", {}, "tests_pass", TRUE)) @@
    (10 :> Step("GREEN Check", {}, "all_green", TRUE)) @@
    (11 :> Step("Debug Loop", {}, "none", TRUE)) @@
    (12 :> Step("Human Review", {}, "human_approval", FALSE)) @@
    (13 :> Step("Second Model Review", {}, "none", FALSE)) @@
    (14 :> Step("Commit", {}, "human_approval_verified", FALSE)) @@
    (15 :> Step("Loop or Merge", {}, "none", FALSE))

TEMPORAL_CONSTRAINTS ==
    [edit_code |-> [min_step |-> 8, requires |-> <<"context_pack_exists">>],
     commit    |-> [min_step |-> 14, requires |-> <<"tests_passed", "human_approved">>],
     push      |-> [min_step |-> 15, requires |-> <<"committed">>],
     implement |-> [min_step |-> 8, requires |-> <<"context_pack_exists", "task_selected">>]]

DEFAULT_STATE ==
    [current_step |-> 0,
     current_bead_id |-> None,
     problem_statement |-> "",
     status |-> "initialized",
     verification |-> [tests_passed |-> FALSE, lint_passed |-> FALSE, last_check |-> None],
     approvals |-> [spec_md |-> FALSE, plan_md |-> FALSE, human_review |-> FALSE],
     context |-> [context_pack_exists |-> FALSE, task_selected |-> FALSE],
     session |-> [started_at |-> None, last_activity |-> None, context_percentage |-> 0],
     history |-> << >>]

(***************************************************************************)
(* sync-task-to-state.py: the keyword table and the inference.             *)
(***************************************************************************)
TASK_TO_STEP ==
    <<
       [keyword |-> <<"p", "r", "o", "b", "l", "e", "m">>, step |-> 0],
       [keyword |-> <<"d", "i", "s", "c", "o", "v", "e", "r", "y">>, step |-> 1],
       [keyword |-> <<"s", "p", "e", "c">>, step |-> 2],
       [keyword |-> <<"p", "l", "a", "n">>, step |-> 3],
       [keyword |-> <<"c", "r", "i", "t", "i", "q", "u", "e">>, step |-> 4],
       [keyword |-> <<"r", "u", "l", "e", "s">>, step |-> 5],
       [keyword |-> <<"s", "e", "l", "e", "c", "t">>, step |-> 6],
       [keyword |-> <<"c", "o", "n", "t", "e", "x", "t">>, step |-> 7],
       [keyword |-> <<"i", "m", "p", "l", "e", "m", "e", "n", "t">>, step |-> 8],
       [keyword |-> <<"t", "e", "s", "t">>, step |-> 9],
       [keyword |-> <<"v", "e", "r", "i", "f", "y">>, step |-> 9],
       [keyword |-> <<"g", "r", "e", "e", "n">>, step |-> 10],
       [keyword |-> <<"d", "e", "b", "u", "g">>, step |-> 11],
       [keyword |-> <<"r", "e", "v", "i", "e", "w">>, step |-> 12],
       [keyword |-> <<"h", "u", "m", "a", "n">>, step |-> 12],
       [keyword |-> <<"s", "e", "c", "o", "n", "d">>, step |-> 13],
       [keyword |-> <<"c", "o", "m", "m", "i", "t">>, step |-> 14],
       [keyword |-> <<"l", "o", "o", "p">>, step |-> 15],
       [keyword |-> <<"m", "e", "r", "g", "e">>, step |-> 15]
    >>

UpperCase == <<"A","B","C","D","E","F","G","H","I","J","K","L","M",
               "N","O","P","Q","R","S","T","U","V","W","X","Y","Z">>

LowerCase == <<"a","b","c","d","e","f","g","h","i","j","k","l","m",
               "n","o","p","q","r","s","t","u","v","w","x","y","z">>

Digits == <<"0","1","2","3","4","5","6","7","8","9">>

\* str.lower(), one character
LowerChar(c) ==
    IF \E i \in DOMAIN UpperCase : UpperCase[i] = c
    THEN LowerCase[CHOOSE i \in DOMAIN UpperCase : UpperCase[i] = c]
    ELSE c

\* str.lower()
Lower(text) == [i \in DOMAIN text |-> LowerChar(text[i])]

\* keyword in text
Contains(text, keyword) ==
    \E i \in 1..(Len(text) - Len(keyword) + 1) :
        SubSeq(text, i, i + Len(keyword) - 1) = keyword

IsDigit(c) == \E i \in DOMAIN Digits : Digits[i] = c

DigitValue(c) == (CHOOSE i \in DOMAIN Digits : Digits[i] = c) - 1

IsSpace(c) == c = " "

RECURSIVE DecimalValue(_)
\* int() of a non-empty run of digits
DecimalValue(digits) ==
    IF digits = << >> THEN 0
    ELSE 10 * DecimalValue(SubSeq(digits, 1, Len(digits) - 1)) + DigitValue(digits[Len(digits)])

\* \s* and \d+ are greedy: the first position from i on that holds no space (no digit)
RECURSIVE SkipSpaces(_, _)
SkipSpaces(text, i) ==
    IF i <= Len(text) /\ IsSpace(text[i]) THEN SkipSpaces(text, i + 1) ELSE i

RECURSIVE SkipDigits(_, _)
SkipDigits(text, i) ==
    IF i <= Len(text) /\ IsDigit(text[i]) THEN SkipDigits(text, i + 1) ELSE i

\* re.search(r'step\s*(\d+)', text): where the pattern matches at position i
StepPatternAt(text, i) ==
    /\ i + 3 <= Len(text)
    /\ SubSeq(text, i, i + 3) = <<"s", "t", "e", "p">>
    /\ SkipDigits(text, SkipSpaces(text, i + 4)) > SkipSpaces(text, i + 4)

\* match.group(1) of the leftmost match
StepPatternGroup(text) ==
    LET i == CHOOSE k \in 1..Len(text) :
                 StepPatternAt(text, k) /\ \A m \in 1..(k - 1) : ~StepPatternAt(text, m)
        d == SkipSpaces(text, i + 4)
    IN  SubSeq(text, d, SkipDigits(text, d) - 1)

\* a faulty inference: an unknown subject is taken as step 0
infer_step_from_task_defaulting(task_subject) ==
    LET subject_lower == Lower(task_subject)
        hits == { k \in DOMAIN TASK_TO_STEP : Contains(subject_lower, TASK_TO_STEP[k].keyword) }
    IN  IF hits # {}
        THEN TASK_TO_STEP[CHOOSE k \in hits : \A m \in hits : k <= m].step
        ELSE IF \E i \in 1..Len(subject_lower) : StepPatternAt(subject_lower, i)
        THEN DecimalValue(StepPatternGroup(subject_lower))
        ELSE 0

\* a faulty inference: the last declared keyword that occurs wins
infer_step_from_task_last_declared(task_subject) ==
    LET subject_lower == Lower(task_subject)
        hits == { k \in DOMAIN TASK_TO_STEP : Contains(subject_lower, TASK_TO_STEP[k].keyword) }
    IN  IF hits # {}
        THEN TASK_TO_STEP[CHOOSE k \in hits : \A m \in hits : k >= m].step
        ELSE IF \E i \in 1..Len(subject_lower) : StepPatternAt(subject_lower, i)
        THEN DecimalValue(StepPatternGroup(subject_lower))
        ELSE -1

infer_step_from_task(task_subject) ==
    LET subject_lower == Lower(task_subject)
        hits == { k \in DOMAIN TASK_TO_STEP : Contains(subject_lower, TASK_TO_STEP[k].keyword) }
    IN  IF hits # {}
        THEN TASK_TO_STEP[CHOOSE k \in hits : \A m \in hits : k <= m].step
        ELSE IF \E i \in 1..Len(subject_lower) : StepPatternAt(subject_lower, i)
        THEN DecimalValue(StepPatternGroup(subject_lower))
        ELSE -1

(***************************************************************************)
(* json.dump / json.load of the state document.  A JSON text is modelled   *)
(* by its value tree: objects and arrays keep their shape, a leaf carries  *)
(* its JSON kind.                                                          *)
(***************************************************************************)
JNull == [j |-> "null"]

JTrue == [j |-> "true"]

JFalse == [j |-> "false"]

JNumber(n) == [j |-> "number", v |-> n]

JString(s) == [j |-> "string", v |-> s]

\* keys whose Python value is None or a str
OptionalKeys ==
    {"current_bead_id", "last_check", "started_at", "last_activity", "ended_at", "last_compact"}

BoolKeys ==
    {"tests_passed", "lint_passed", "spec_md", "plan_md", "human_review",
     "context_pack_exists", "task_selected"}

NumberKeys == {"current_step", "context_percentage"}

ObjectKeys == {"verification", "approvals", "context", "session"}

json_leaf(key, value) ==
    IF key \in OptionalKeys THEN (IF value = None THEN JNull ELSE JString(value[1]))
    ELSE IF key \in BoolKeys THEN (IF value THEN JTrue ELSE JFalse)
    ELSE IF key \in NumberKeys THEN JNumber(value)
    ELSE JString(value)

json_entry(entry) ==
    [timestamp |-> JString(entry.timestamp), message |-> JString(entry.message)]

json_dump(doc) ==
    [key \in DOMAIN doc |->
        IF key \in ObjectKeys
        THEN [k \in DOMAIN doc[key] |-> json_leaf(k, doc[key][k])]
        ELSE IF key = "history"
        THEN [i \in DOMAIN doc[key] |-> json_entry(doc[key][i])]
        ELSE json_leaf(key, doc[key])]

python_leaf(key, json) ==
    IF json.j = "null" THEN None
    ELSE IF json.j = "true" THEN TRUE
    ELSE IF json.j = "false" THEN FALSE
    ELSE IF json.j = "number" THEN json.v
    ELSE IF key \in OptionalKeys THEN Some(json.v)
    ELSE json.v

python_entry(json) ==
    [timestamp |-> json.timestamp.v, message |-> json.message.v]

json_load(text) ==
    [key \in DOMAIN text |->
        IF key \in ObjectKeys
        THEN [k \in DOMAIN text[key] |-> python_leaf(k, text[key][k])]
        ELSE IF key = "history"
        THEN [i \in DOMAIN text[key] |-> python_entry(text[key][i])]
        ELSE python_leaf(key, text[key])]

(***************************************************************************)
(* state_manager.py.  A method of StateManager takes and returns the world *)
(* it acts on: w.state is manager.state, w.disk the state file,            *)
(* w.history_file the history log, w.backups the backup directory.         *)
(***************************************************************************)
NoText == << >>

NoFile == [status |-> "absent", text |-> NoText]

\* a faulty merge, {**state, **DEFAULT_STATE}: the defaults win
MergeDefaults_reversed(doc) == DEFAULT_STATE @@ doc

\* a faulty merge that also fills the keys missing inside a sub-object
MergeDefaults_deep(doc) ==
    [key \in DOMAIN doc \cup DOMAIN DEFAULT_STATE |->
        IF key \in ObjectKeys \cap DOMAIN doc THEN doc[key] @@ DEFAULT_STATE[key]
        ELSE IF key \in DOMAIN doc THEN doc[key]
        ELSE DEFAULT_STATE[key]]

\* {**DEFAULT_STATE, **state}
MergeDefaults(doc) == doc @@ DEFAULT_STATE

_load_state(file) ==
    IF file.status = "ok" THEN MergeDefaults(json_load(file.text)) ELSE DEFAULT_STATE

\* get_manager(): StateManager.__init__
get_manager ==
    [state |-> _load_state(disk), disk |-> disk,
     history_file |-> history_file, backups |-> backups]

save(w, now) ==
    LET stamped == [w.state EXCEPT !.session = Put(@, "last_activity", Some(now))]
    IN  [w EXCEPT !.state = stamped, !.disk = [status |-> "ok", text |-> json_dump(stamped)]]

\* the path backup() returns
backup_path(w, reason, now) ==
    IF w.disk.status # "absent" THEN Some(<<ToString(now), reason>>) ELSE None

backup(w, reason, now) ==
    IF w.disk.status # "absent"
    THEN LET name == <<ToString(now), reason>>
         IN  [w EXCEPT !.backups =
                 { b \in @ : b.name # name } \cup {[name |-> name, file |-> w.disk]}]
    ELSE w

get_current_step(doc) == Get(doc, "current_step", 0)

\* a faulty log: the entry is put first, not last
_log_history_prepending(w, message, now) ==
    LET entry == [timestamp |-> now, message |-> message]
    IN  [w EXCEPT !.state = Put(@, "history", <<entry>> \o Get(@, "history", << >>)),
                  !.history_file = <<json_entry(entry)>> \o @]

_log_history(w, message, now) ==
    LET entry == [timestamp |-> now, message |-> message]
    IN  [w EXCEPT !.state = Put(@, "history", Append(Get(@, "history", << >>), entry)),
                  !.history_file = Append(@, json_entry(entry))]

\* a faulty setter: the range is not checked
set_current_step_unchecked(w, step, now) ==
    LET old_step == Get(w.state, "current_step", 0)
        stepped == [w EXCEPT !.state = Put(@, "current_step", step)]
        message == <<"Step changed: ", ToString(old_step), " -> ", ToString(step)>>
    IN  save(_log_history(stepped, message, now), now)

\* a faulty setter: the save is outside the range check
set_current_step_always_saving(w, step, now) ==
    IF 0 <= step /\ step <= MaxStep
    THEN LET old_step == Get(w.state, "current_step", 0)
             stepped == [w EXCEPT !.state = Put(@, "current_step", step)]
             message == <<"Step changed: ", ToString(old_step), " -> ", ToString(step)>>
         IN  save(_log_history(stepped, message, now), now)
    ELSE save(w, now)

\* a faulty setter: a step set to itself is not a change
set_current_step_skipping_same(w, step, now) ==
    IF 0 <= step /\ step <= MaxStep /\ step # Get(w.state, "current_step", 0)
    THEN LET old_step == Get(w.state, "current_step", 0)
             stepped == [w EXCEPT !.state = Put(@, "current_step", step)]
             message == <<"Step changed: ", ToString(old_step), " -> ", ToString(step)>>
         IN  save(_log_history(stepped, message, now), now)
    ELSE w

set_current_step(w, step, now) ==
    IF 0 <= step /\ step <= MaxStep
    THEN LET old_step == Get(w.state, "current_step", 0)
             stepped == [w EXCEPT !.state = Put(@, "current_step", step)]
             message == <<"Step changed: ", ToString(old_step), " -> ", ToString(step)>>
         IN  save(_log_history(stepped, message, now), now)
    ELSE w

\* a faulty lookup: off by one
get_step_info_shifted(step) ==
    IF step - 1 \in DOMAIN STEPS THEN STEPS[step - 1] ELSE STEPS[0]

get_step_info(step) == IF step \in DOMAIN STEPS THEN STEPS[step] ELSE STEPS[0]

\* a faulty gate: the capability is taken from the step number (Step 8+), not from the registry
can_edit_code_by_number(doc, context_pack_file) ==
    LET step == get_current_step(doc)
        step_info == get_step_info(step)
    IN  IF step < 8
        THEN <<FALSE, <<"Step ", ToString(step), " (", step_info.name,
                        ") does not allow code editing. Must be Step 8+ (Implementation).">>>>
        ELSE IF /\ ~Get(Get(doc, "context", << >>), "context_pack_exists", FALSE)
                /\ ~context_pack_file
        THEN <<FALSE, <<"context-pack.md must exist before code editing (Step 7)">>>>
        ELSE <<TRUE, <<"OK">>>>

can_edit_code(doc, context_pack_file) ==
    LET step == get_current_step(doc)
        step_info == get_step_info(step)
        constraints == Get(TEMPORAL_CONSTRAINTS, "edit_code", << >>)
        min_step == Get(constraints, "min_step", 0)
        requires == Get(constraints, "requires", << >>)
    IN  IF ~Get(step_info, "allows_code_edit", FALSE)
        THEN <<FALSE, <<"Step ", ToString(step), " (", step_info.name,
                        ") does not allow code editing. Must be Step 8+ (Implementation).">>>>
        ELSE IF step < min_step
        THEN <<FALSE, <<"Code editing requires Step ", ToString(min_step),
                        "+. Current: Step ", ToString(step)>>>>
        ELSE IF \E i \in DOMAIN requires :
                    /\ requires[i] = "context_pack_exists"
                    /\ ~Get(Get(doc, "context", << >>), "context_pack_exists", FALSE)
                    /\ ~context_pack_file
        THEN <<FALSE, <<"context-pack.md must exist before code editing (Step 7)">>>>
        ELSE <<TRUE, <<"OK">>>>

\* a faulty gate: the human approval is not checked
can_commit_unapproved(doc) ==
    LET step == get_current_step(doc)
        constraints == Get(TEMPORAL_CONSTRAINTS, "commit", << >>)
        min_step == Get(constraints, "min_step", 14)
    IN  IF step < min_step
        THEN <<FALSE, <<"Commit requires Step ", ToString(min_step),
                        "+. Current: Step ", ToString(step)>>>>
        ELSE IF ~Get(Get(doc, "verification", << >>), "tests_passed", FALSE)
        THEN <<FALSE, <<"Tests must pass before commit (Step 9)">>>>
        ELSE <<TRUE, <<"OK">>>>

can_commit(doc) ==
    LET step == get_current_step(doc)
        constraints == Get(TEMPORAL_CONSTRAINTS, "commit", << >>)
        min_step == Get(constraints, "min_step", 14)
    IN  IF step < min_step
        THEN <<FALSE, <<"Commit requires Step ", ToString(min_step),
                        "+. Current: Step ", ToString(step)>>>>
        ELSE IF ~Get(Get(doc, "verification", << >>), "tests_passed", FALSE)
        THEN <<FALSE, <<"Tests must pass before commit (Step 9)">>>>
        ELSE IF ~Get(Get(doc, "approvals", << >>), "human_review", FALSE)
        THEN <<FALSE, <<"Human review approval required before commit (Step 12)">>>>
        ELSE <<TRUE, <<"OK">>>>

can_push(doc) ==
    LET step == get_current_step(doc)
        constraints == Get(TEMPORAL_CONSTRAINTS, "push", << >>)
        min_step == Get(constraints, "min_step", 15)
    IN  IF step < min_step
        THEN <<FALSE, <<"Push requires Step ", ToString(min_step),
                        ". Current: Step ", ToString(step)>>>>
        ELSE <<TRUE, <<"OK">>>>

\* self.state[key][flag] = value, creating self.state[key] when it is missing
SetFlag(doc, key, flag, value) ==
    Put(doc, key, Put(Get(doc, key, << >>), flag, value))

\* a faulty setter: the verification change is logged like an approval
set_tests_passed_logging(w, passed, now) ==
    LET flagged == SetFlag(w.state, "verification", "tests_passed", passed)
        checked == SetFlag(flagged, "verification", "last_check", Some(now))
        message == <<"Tests: ", IF passed THEN "passed" ELSE "failed">>
    IN  save(_log_history([w EXCEPT !.state = checked], message, now), now)

set_tests_passed(w, passed, now) ==
    LET flagged == SetFlag(w.state, "verification", "tests_passed", passed)
        checked == SetFlag(flagged, "verification", "last_check", Some(now))
    IN  save([w EXCEPT !.state = checked], now)

\* a faulty setter: the approval change is not logged
set_human_approval_unlogged(w, approved, now) ==
    save([w EXCEPT !.state = SetFlag(@, "approvals", "human_review", approved)], now)

set_human_approval(w, approved, now) ==
    LET flagged == [w EXCEPT !.state = SetFlag(@, "approvals", "human_review", approved)]
        message == <<"Human approval: ", IF approved THEN "granted" ELSE "revoked">>
    IN  save(_log_history(flagged, message, now), now)

set_context_pack_exists(w, exists, now) ==
    save([w EXCEPT !.state = SetFlag(@, "context", "context_pack_exists", exists)], now)

\* bead_id is a str ("" is falsy) or None
set_task_selected(w, selected, bead_id, now) ==
    LET flagged == SetFlag(w.state, "context", "task_selected", selected)
        named == IF bead_id # None /\ bead_id # Some("")
                 THEN Put(flagged, "current_bead_id", bead_id)
                 ELSE flagged
    IN  save([w EXCEPT !.state = named], now)

(***************************************************************************)
(* The inputs of the invocations.                                          *)
(***************************************************************************)
StepArgs ==
    {<<"8">>, <<"1", "5">>, <<"1", "6">>, <<"x">>}

TaskIds == {"T1"}

Subjects ==
    {<<"B","u","i","l","d"," ","c","o","n","t","e","x","t"," ","p","a","c","k">>,
     <<"R","u","n"," ","t","e","s","t","s">>,
     <<"H","u","m","a","n"," ","R","e","v","i","e","w">>,
     <<"S","t","e","p"," ","9","9">>,
     <<"r","a","n","d","o","m">>}

StartedSubjects ==
    {<<"R","u","n"," ","t","e","s","t","s">>,
     <<"S","t","e","p"," ","9","9">>,
     <<"r","a","n","d","o","m">>}

ToolInputs ==
    { [parses |-> TRUE, json |-> [taskId |-> t, status |-> "completed", subject |-> sub]] :
          t \in TaskIds, sub \in Subjects }
    \cup
    { [parses |-> TRUE, json |-> [taskId |-> t, status |-> "in_progress", subject |-> sub]] :
          t \in TaskIds, sub \in StartedSubjects }
    \cup {[parses |-> TRUE, json |-> [status |-> "pending"]],
          [parses |-> FALSE, json |-> << >>]}

EditInputs ==
    {[parses |-> TRUE, json |-> [file_path |-> "app.py"]], [parses |-> FALSE, json |-> << >>]}

Actions == {"edit", "commit", "push", "implement"}

\* infer_step_from_task on the subjects that reach it, computed once
InferredStep ==
    [subject \in Subjects \cup StartedSubjects \cup {<< >>} |-> infer_step_from_task(subject)]

(***************************************************************************)
(* One invocation: a process that called get_manager(), ran its handler    *)
(* and left the world w behind.  `kind` says what the call was: "audited"  *)
(* (a mutating call that is one audited event: a step change, an approval  *)
(* change, a recorded edit), "flag" (a mutating call that sets a           *)
(* verification or context flag), "sync" (a task completed or started) or  *)
(* "other".                                                                *)
(***************************************************************************)
now == calls + 1

NoTally == [audited |-> 0, flag |-> 0, sync |-> 0]

Exit(w, op, arg, code, reason, kind) ==
    /\ calls < MaxCalls
    /\ loaded' = _load_state(disk)
    /\ state' = w.state
    /\ disk' = w.disk
    /\ history_file' = w.history_file
    /\ backups' = w.backups
    /\ last' = [op |-> op, arg |-> arg, exit |-> code, reason |-> reason]
    /\ calls' = calls + 1
    /\ tally' = IF kind \in DOMAIN tally THEN [tally EXCEPT ![kind] = @ + 1] ELSE tally
    /\ UNCHANGED <<context_pack, running>>

(***************************************************************************)
(* vibe-cli.py                                                             *)
(***************************************************************************)
\* int(text) succeeds: an optional sign and a run of digits
IsInt(text) ==
    LET body == IF text # << >> /\ text[1] \in {"-", "+"} THEN Tail(text) ELSE text
    IN  body # << >> /\ \A i \in DOMAIN body : IsDigit(body[i])

\* int(text)
ParseInt(text) ==
    IF text[1] = "-" THEN 0 - DecimalValue(Tail(text))
    ELSE IF text[1] = "+" THEN DecimalValue(Tail(text))
    ELSE DecimalValue(text)

cmd_status ==
    Exit(get_manager, "status", << >>, 0, << >>, "other")

cmd_set_step(step_arg) ==
    IF IsInt(step_arg) /\ 0 <= ParseInt(step_arg) /\ ParseInt(step_arg) <= MaxStep
    THEN Exit(set_current_step(get_manager, ParseInt(step_arg), now),
              "set-step", step_arg, 0, << >>, "audited")
    ELSE Exit(get_manager, "set-step", step_arg, 1,
              IF IsInt(step_arg) THEN <<"[ERROR] Step must be between 0 and 15">>
              ELSE <<"[ERROR] Invalid step number">>, "other")

cmd_approve ==
    Exit(set_human_approval(get_manager, TRUE, now), "approve", << >>, 0, << >>, "audited")

cmd_revoke ==
    Exit(set_human_approval(get_manager, FALSE, now), "revoke", << >>, 0, << >>, "audited")

cmd_tests_pass ==
    Exit(set_tests_passed(get_manager, TRUE, now), "tests-pass", << >>, 0, << >>, "flag")

cmd_tests_fail ==
    Exit(set_tests_passed(get_manager, FALSE, now), "tests-fail", << >>, 0, << >>, "flag")

cmd_context_pack ==
    Exit(set_context_pack_exists(get_manager, TRUE, now),
         "context-pack", << >>, 0, << >>, "flag")

cmd_select_task(task_id) ==
    Exit(set_task_selected(get_manager, TRUE, Some(task_id), now),
         "select-task", <<task_id>>, 0, << >>, "flag")

\* a faulty reset: the backup is taken after the defaults are saved
cmd_reset_backing_up_last ==
    LET restored == save([get_manager EXCEPT !.state = DEFAULT_STATE], now)
    IN  Exit(backup(restored, "pre_reset", now), "reset", << >>, 0, << >>, "other")

cmd_reset ==
    LET saved == backup(get_manager, "pre_reset", now)
    IN  Exit(save([saved EXCEPT !.state = DEFAULT_STATE], now),
             "reset", << >>, 0, << >>, "other")

cmd_backup ==
    Exit(backup(get_manager, "manual", now), "backup", << >>, 0, << >>, "other")

(***************************************************************************)
(* check-step-validation.py                                                *)
(***************************************************************************)
\* a faulty hook: it saves the state like the other hooks do
check_step_validation_saving(action) ==
    LET manager == get_manager
        verdict == CASE action = "edit" -> can_edit_code(manager.state, context_pack)
                     [] action = "commit" -> can_commit(manager.state)
                     [] action = "push" -> can_push(manager.state)
                     [] action = "implement" -> can_edit_code(manager.state, context_pack)
                     [] OTHER -> <<FALSE, <<"Unknown action: ", action>>>>
    IN  Exit(save(manager, now), "check", <<action>>,
             IF verdict[1] THEN 0 ELSE 1, verdict[2], "other")

check_step_validation(action) ==
    LET manager == get_manager
        verdict == CASE action = "edit" -> can_edit_code(manager.state, context_pack)
                     [] action = "commit" -> can_commit(manager.state)
                     [] action = "push" -> can_push(manager.state)
                     [] action = "implement" -> can_edit_code(manager.state, context_pack)
                     [] OTHER -> <<FALSE, <<"Unknown action: ", action>>>>
    IN  Exit(manager, "check", <<action>>, IF verdict[1] THEN 0 ELSE 1, verdict[2], "other")

(***************************************************************************)
(* sync-task-to-state.py.  stdin either fails to parse or is a JSON object *)
(* that may lack any of its keys.                                          *)
(***************************************************************************)
\* a faulty hook: a completed task sets the step it infers, lower or not
sync_task_to_state_unguarded(stdin) ==
    IF ~stdin.parses
    THEN Exit(get_manager, "sync", << >>, 0, << >>, "other")
    ELSE
    LET manager == get_manager
        task_id == Get(stdin.json, "taskId", "")
        new_status == Get(stdin.json, "status", "")
        subject == Get(stdin.json, "subject", << >>)
        inferred_step == InferredStep[subject]
        current_step == get_current_step(manager.state)
        advanced == IF inferred_step >= 0
                    THEN set_current_step(manager, inferred_step, now)
                    ELSE manager
        completed == IF inferred_step = 7 THEN set_context_pack_exists(advanced, TRUE, now)
                     ELSE IF inferred_step = 9 THEN set_tests_passed(advanced, TRUE, now)
                     ELSE IF inferred_step = 12 THEN set_human_approval(advanced, TRUE, now)
                     ELSE advanced
        selected == set_task_selected(manager, TRUE, Some(task_id), now)
        started == IF inferred_step >= 0
                   THEN set_current_step(selected, inferred_step, now)
                   ELSE selected
        done == IF new_status = "completed" THEN completed
                ELSE IF new_status = "in_progress" THEN started
                ELSE manager
    IN  Exit(save(done, now), "sync", <<task_id, new_status, subject>>, 0, << >>,
             IF new_status \in {"completed", "in_progress"} THEN "sync" ELSE "other")

sync_task_to_state(stdin) ==
    IF ~stdin.parses
    THEN Exit(get_manager, "sync", << >>, 0, << >>, "other")
    ELSE
    LET manager == get_manager
        task_id == Get(stdin.json, "taskId", "")
        new_status == Get(stdin.json, "status", "")
        subject == Get(stdin.json, "subject", << >>)
        inferred_step == InferredStep[subject]
        current_step == get_current_step(manager.state)
        advanced == IF inferred_step > current_step
                    THEN set_current_step(manager, inferred_step, now)
                    ELSE manager
        completed == IF inferred_step = 7 THEN set_context_pack_exists(advanced, TRUE, now)
                     ELSE IF inferred_step = 9 THEN set_tests_passed(advanced, TRUE, now)
                     ELSE IF inferred_step = 12 THEN set_human_approval(advanced, TRUE, now)
                     ELSE advanced
        selected == set_task_selected(manager, TRUE, Some(task_id), now)
        started == IF inferred_step >= 0
                   THEN set_current_step(selected, inferred_step, now)
                   ELSE selected
        done == IF new_status = "completed" THEN completed
                ELSE IF new_status = "in_progress" THEN started
                ELSE manager
    IN  Exit(save(done, now), "sync", <<task_id, new_status, subject>>, 0, << >>,
             IF new_status \in {"completed", "in_progress"} THEN "sync" ELSE "other")

(***************************************************************************)
(* post-edit-verification.py                                               *)
(***************************************************************************)
\* a faulty hook: the edit is recorded but tests_passed is left as it was
post_edit_verification_keeping_tests(stdin) ==
    LET manager == get_manager
        file_path == IF stdin.parses THEN Get(stdin.json, "file_path", "unknown") ELSE "unknown"
        recorded == _log_history(manager, <<"Code edited: ", file_path>>, now)
    IN  Exit(save(recorded, now), "post-edit", <<file_path>>, 0, << >>, "audited")

post_edit_verification(stdin) ==
    LET manager == get_manager
        file_path == IF stdin.parses THEN Get(stdin.json, "file_path", "unknown") ELSE "unknown"
        invalidated ==
            IF Get(Get(manager.state, "verification", << >>), "tests_passed", FALSE)
            THEN set_tests_passed(manager, FALSE, now)
            ELSE manager
        recorded == _log_history(invalidated, <<"Code edited: ", file_path>>, now)
    IN  Exit(save(recorded, now), "post-edit", <<file_path>>, 0, << >>, "audited")

(***************************************************************************)
(* inject-current-step.py, save-session-state.py,                          *)
(* save-state-before-compact.py, reload-state.py                           *)
(***************************************************************************)
inject_current_step ==
    LET manager == get_manager
        step == get_current_step(manager.state)
        step_info == get_step_info(step)
    IN  Exit(manager, "inject", << >>, 0,
             <<"[VibeCode Step ", ToString(step), ": ", step_info.name, "] Code edit: ",
               IF step_info.allows_code_edit THEN "YES" ELSE "NO">>, "other")

save_session_state ==
    LET saved == backup(get_manager, "session_end", now)
        ended == [saved EXCEPT !.state.session = Put(@, "ended_at", Some(now))]
    IN  Exit(save(ended, now), "session-end", << >>, 0, << >>, "other")

save_state_before_compact ==
    LET saved == backup(get_manager, "pre_compact", now)
        noted == [saved EXCEPT !.state.session = Put(@, "last_compact", Some(now))]
    IN  Exit(save(noted, now), "pre-compact", << >>, 0, << >>, "other")

reload_state ==
    LET manager == get_manager
        begun == [manager EXCEPT !.state.session = Put(@, "started_at", Some(now))]
        seen == IF context_pack THEN set_context_pack_exists(begun, TRUE, now) ELSE begun
    IN  Exit(save(seen, now), "reload", << >>, 0, << >>, "other")

(***************************************************************************)
(* The external collaborator that writes or removes context-pack.md.       *)
(***************************************************************************)
context_pack_changes ==
    /\ context_pack' = ~context_pack
    /\ UNCHANGED <<disk, history_file, backups, loaded, state, last, calls, tally, running>>

(***************************************************************************)
(* The workflow from a fresh project: no state file, no history log.       *)
(***************************************************************************)
NoCall == [op |-> "none", arg |-> << >>, exit |-> 0, reason |-> << >>]

\* no process is in flight: every invocation has run from get_manager() to its exit
NoProcess == << >>

Init ==
    /\ disk = NoFile
    /\ history_file = << >>
    /\ backups = {}
    /\ context_pack = FALSE
    /\ loaded = DEFAULT_STATE
    /\ state = DEFAULT_STATE
    /\ last = NoCall
    /\ calls = 0
    /\ tally = NoTally
    /\ running = NoProcess

Next ==
    \/ cmd_status
    \/ \E step_arg \in StepArgs : cmd_set_step(step_arg)
    \/ cmd_approve
    \/ cmd_revoke
    \/ cmd_tests_pass
    \/ cmd_tests_fail
    \/ cmd_context_pack
    \/ \E task_id \in TaskIds : cmd_select_task(task_id)
    \/ cmd_reset
    \/ cmd_backup
    \/ \E action \in Actions : check_step_validation(action)
    \/ \E stdin \in ToolInputs : sync_task_to_state(stdin)
    \/ \E stdin \in EditInputs : post_edit_verification(stdin)
    \/ inject_current_step
    \/ save_session_state
    \/ save_state_before_compact
    \/ reload_state
    \/ context_pack_changes

Spec == Init /\ [][Next]_vars

(***************************************************************************)
(* The gates on a workflow that the CLI has driven to some step with some  *)
(* flags set: set-step, then tests-pass, approve, context-pack and         *)
(* select-task as chosen, each in its own process.                         *)
(***************************************************************************)
Fresh == [state |-> DEFAULT_STATE, disk |-> NoFile, history_file |-> << >>, backups |-> {}]

\* the next process on the world w: it loads what the last one saved
Reloaded(w) == [w EXCEPT !.state = _load_state(w.disk)]

Driven(step, tests, approval, pack, task) ==
    LET stepped == set_current_step(Fresh, step, 0)
        tested == IF tests THEN set_tests_passed(Reloaded(stepped), TRUE, 0) ELSE stepped
        approved == IF approval THEN set_human_approval(Reloaded(tested), TRUE, 0) ELSE tested
        packed == IF pack THEN set_context_pack_exists(Reloaded(approved), TRUE, 0) ELSE approved
        chosen == IF task THEN set_task_selected(Reloaded(packed), TRUE, Some("T1"), 0) ELSE packed
    IN  Reloaded(chosen)

InitGate ==
    \E step \in 0..MaxStep, tests \in BOOLEAN, approval \in BOOLEAN,
       pack \in BOOLEAN, task \in BOOLEAN, file \in BOOLEAN :
        LET w == Driven(step, tests, approval, pack, task)
        IN  /\ disk = w.disk
            /\ history_file = w.history_file
            /\ backups = w.backups
            /\ context_pack = file
            /\ loaded = w.state
            /\ state = w.state
            /\ last = NoCall
            /\ calls = 0
            /\ tally = NoTally
            /\ running = NoProcess

NextGate ==
    \/ \E action \in Actions : check_step_validation(action)
    \/ context_pack_changes

SpecGate == InitGate /\ [][NextGate]_vars

(***************************************************************************)
(* Properties.                                                             *)
(***************************************************************************)
\* doc[key][flag], False when missing
Flag(doc, key, flag) == Get(Get(doc, key, << >>), flag, FALSE)

\* the last invocation was the gate check of this action
Checked(action) == last.op = "check" /\ last.arg = <<action>>

\* the last invocation was a task-sync whose subject is inferred as a step beyond the last one
SyncedBeyondLastStep ==
    /\ last.op = "sync"
    /\ last.arg # << >>
    /\ last.arg[2] = "completed"
    /\ InferredStep[last.arg[3]] > MaxStep

\* C1: can_commit allows exactly when current_step >= 14, tests_passed and
\* human_review all hold, and the gate-check entry point exits 0 exactly then.
C1_CommitGate ==
    LET open == /\ state.current_step >= 14
                /\ Flag(state, "verification", "tests_passed")
                /\ Flag(state, "approvals", "human_review")
    IN  /\ can_commit(state)[1] <=> open
        /\ Checked("commit") => (last.exit = 0 <=> open)

C1_Witness ==
    /\ Checked("commit")
    /\ last.exit = 0
    /\ state.current_step = 14

\* C2: at every step whose allows_code_edit is false (0-7 and 12-15)
\* can_edit_code denies whatever the flags and the context-pack file are, and
\* the reason names the step number and its registry name.
C2_EditDeniedByCapability ==
    LET step == state.current_step
    IN  /\ ~STEPS[step].allows_code_edit <=> step \in (0..7) \cup (12..15)
        /\ ~STEPS[step].allows_code_edit =>
              /\ \A file \in BOOLEAN :
                    LET verdict == can_edit_code(state, file)
                    IN  /\ ~verdict[1]
                        /\ ToString(step) \in Range(verdict[2])
                        /\ STEPS[step].name \in Range(verdict[2])
              /\ Checked("edit") =>
                    /\ last.exit = 1
                    /\ STEPS[step].name \in Range(last.reason)

C2_Witness ==
    /\ Checked("edit")
    /\ last.exit = 1
    /\ state.current_step = 12
    /\ Flag(state, "context", "context_pack_exists")
    /\ Flag(state, "verification", "tests_passed")
    /\ Flag(state, "approvals", "human_review")
    /\ context_pack

\* C3 as stated: at every step 8..15 with the stored context_pack_exists flag
\* true, the edit gate allows.
C3_Original ==
    (/\ Checked("edit")
     /\ state.current_step \in 8..15
     /\ Flag(state, "context", "context_pack_exists"))
        => last.exit = 0

\* C3 amended: at every step 8..11 (the steps whose allows_code_edit is true)
\* with the stored context_pack_exists flag true, can_edit_code allows with
\* reason OK; at steps 12..15 it denies.
C3_EditAllowed ==
    /\ (state.current_step \in 8..11 /\ Flag(state, "context", "context_pack_exists"))
          => \A file \in BOOLEAN : can_edit_code(state, file) = <<TRUE, <<"OK">>>>
    /\ state.current_step \in 12..15
          => \A file \in BOOLEAN : ~can_edit_code(state, file)[1]

C3_Witness ==
    /\ Checked("edit")
    /\ last.exit = 0
    /\ state.current_step = 11
    /\ Flag(state, "context", "context_pack_exists")
    /\ ~context_pack

\* C4: at a step that passes the capability and temporal checks, edit is
\* allowed only when both the stored context_pack_exists flag is true and the
\* context-pack file exists.
C4_BothFlagAndFile ==
    (STEPS[state.current_step].allows_code_edit /\ state.current_step >= 8)
        => (can_edit_code(state, context_pack)[1]
               <=> (Flag(state, "context", "context_pack_exists") /\ context_pack))

\* C5: after any sequence of commands and hooks from the default state, the
\* in-memory and the persisted current_step lie in 0..15.
C5_StepInRange ==
    /\ state.current_step \in 0..MaxStep
    /\ _load_state(disk).current_step \in 0..MaxStep
    /\ disk.status = "ok" =>
          /\ disk.text.current_step.j = "number"
          /\ disk.text.current_step.v \in 0..MaxStep

C5_Witness ==
    /\ SyncedBeyondLastStep
    /\ disk.status = "ok"

\* C6: set_current_step with an integer outside [0,15] changes nothing: not
\* current_step, not the in-memory history, not the history log, not the
\* durable document.
OutOfRangeSteps == {-2, -1, 16, 17, 99}

C6_OutOfRangeNoOp ==
    \A step \in OutOfRangeSteps : set_current_step(get_manager, step, now) = get_manager

C6_Witness ==
    /\ SyncedBeyondLastStep
    /\ history_file # << >>
    /\ state.current_step = loaded.current_step
    /\ state.history = loaded.history

\* C7: a gate check, allowed or denied, leaves the in-memory state as loaded
\* and the state document, the history log and the backups as they were.
C7_GateReadsOnly ==
    [][(calls' = calls + 1 /\ last'.op = "check")
          => /\ state' = loaded'
             /\ disk' = disk
             /\ history_file' = history_file
             /\ backups' = backups]_vars

C7_Witness ==
    /\ last.op = "check"
    /\ last.exit = 0
    /\ disk.status = "ok"
    /\ history_file # << >>

\* C8: saving the in-memory state and loading it in a fresh StateManager
\* gives the same current_step, approvals, verification, context and
\* current_bead_id.
RoundTripKeys == {"current_step", "approvals", "verification", "context", "current_bead_id"}

C8_RoundTrip ==
    LET manager == [state |-> state, disk |-> disk,
                    history_file |-> history_file, backups |-> backups]
        fresh == _load_state(save(manager, now).disk)
    IN  \A key \in RoundTripKeys : fresh[key] = state[key]

C8_Witness ==
    /\ disk.status = "ok"
    /\ state.current_step = 9
    /\ state.current_bead_id = Some("T1")
    /\ Flag(state, "verification", "tests_passed")
    /\ state.verification.last_check # None
    /\ Flag(state, "approvals", "human_review")
    /\ Flag(state, "context", "task_selected")

\* C9 as stated: for every operation, the history the operation found is a
\* prefix of the history it leaves.
C9_Original == IsPrefix(loaded.history, state.history)

\* C9 amended: for every operation other than reset, the history it found is
\* a prefix of the history it leaves, and what it leaves is what the next
\* operation finds; reset leaves the empty history; the history log file is
\* only ever extended, by reset too.
C9_HistoryAppendOnly ==
    [][/\ IsPrefix(history_file, history_file')
       /\ calls' = calls + 1 => loaded'.history = state.history
       /\ last'.op # "reset" => IsPrefix(loaded'.history, state'.history)
       /\ (calls' = calls + 1 /\ last'.op = "reset") => state'.history = << >>]_vars

C9_Witness ==
    /\ last.op = "approve"
    /\ Len(loaded.history) >= 1
    /\ state.history = Append(loaded.history, state.history[Len(state.history)])
    /\ Len(history_file) >= 2

\* C10 as stated: after N invocations that were all mutating calls, the
\* history log holds exactly N lines.
C10_Original ==
    tally.audited + tally.flag + tally.sync = calls => Len(history_file) = calls

\* the message an audited call logs
AuditMessage ==
    CASE last.op = "set-step" ->
             <<"Step changed: ", ToString(loaded.current_step), " -> ",
               ToString(ParseInt(last.arg))>>
      [] last.op = "approve" -> <<"Human approval: ", "granted">>
      [] last.op = "revoke" -> <<"Human approval: ", "revoked">>
      [] last.op = "post-edit" -> <<"Code edited: ", last.arg[1]>>

\* C10 amended: the history log holds one line per audited call (an in-range
\* set-step, approve, revoke, post-edit), in call order, none for a call that
\* only sets a verification or context flag, and at most two for a task-sync;
\* so after N invocations that were all audited calls it holds exactly N
\* lines, the i-th written by the i-th call.
C10_OneLinePerAuditedCall ==
    /\ tally.audited <= Len(history_file)
    /\ Len(history_file) <= tally.audited + 2 * tally.sync
    /\ \A i \in 1..(Len(history_file) - 1) :
          history_file[i].timestamp.v <= history_file[i + 1].timestamp.v
    /\ tally.audited = calls =>
          \A i \in DOMAIN history_file : history_file[i].timestamp.v = i
    /\ (last.op \in {"set-step", "approve", "revoke", "post-edit"} /\ last.exit = 0) =>
          history_file[Len(history_file)] =
              json_entry([timestamp |-> calls, message |-> AuditMessage])

C10_Witness ==
    /\ calls = 3
    /\ tally.audited = 3
    /\ last.op = "post-edit"
    /\ Len(history_file) = 3

\* every boolean flag of doc[key] is false
AllFlagsFalse(doc, key) ==
    \A flag \in DOMAIN doc[key] \cap BoolKeys : ~doc[key][flag]

\* C11: reset exits 0 and a fresh load after it shows current_step 0, no
\* current_bead_id and every approval, verification and context flag false;
\* when a state document existed, the pre_reset backup is a copy of it, so it
\* holds the current_step and current_bead_id persisted just before the reset;
\* when none existed, the backup step returns no path and adds no backup.
C11_ResetBacksUpThenRestores ==
    [][(calls' = calls + 1 /\ last'.op = "reset") =>
          LET fresh == _load_state(disk')
              prior == _load_state(disk)
              made == { b \in backups' : b.name = <<ToString(calls'), "pre_reset">> }
          IN  /\ last'.exit = 0
              /\ disk'.status = "ok"
              /\ fresh.current_step = 0
              /\ fresh.current_bead_id = None
              /\ \A key \in {"approvals", "verification", "context"} :
                    AllFlagsFalse(fresh, key)
              /\ IF disk.status = "absent"
                 THEN /\ backups' = backups
                      /\ backup_path(get_manager, "pre_reset", now) = None
                 ELSE /\ backup_path(get_manager, "pre_reset", now) # None
                      /\ \E b \in made :
                            /\ made = {b}
                            /\ b.file = disk
                            /\ _load_state(b.file).current_step = prior.current_step
                            /\ _load_state(b.file).current_bead_id = prior.current_bead_id]_vars

C11_Witness ==
    /\ last.op = "reset"
    /\ loaded.current_step = 8
    /\ loaded.current_bead_id = Some("T1")
    /\ _load_state(disk).current_step = 0
    /\ _load_state(disk).current_bead_id = None
    /\ \E b \in backups :
          /\ b.name = <<ToString(calls), "pre_reset">>
          /\ _load_state(b.file).current_step = 8
          /\ _load_state(b.file).current_bead_id = Some("T1")

(***************************************************************************)
(* Editing near the commit gate: a workflow at step 13, 14 or 15 with the  *)
(* context pack and a task in place, on which code is edited, tests are    *)
(* marked, tasks are synced and the commit gate is asked.                  *)
(***************************************************************************)
InitEdit ==
    \E step \in 13..MaxStep, tests \in BOOLEAN, approval \in BOOLEAN :
        LET w == Driven(step, tests, approval, TRUE, TRUE)
        IN  /\ disk = w.disk
            /\ history_file = w.history_file
            /\ backups = w.backups
            /\ context_pack = FALSE
            /\ loaded = w.state
            /\ state = w.state
            /\ last = NoCall
            /\ calls = 0
            /\ tally = NoTally
            /\ running = NoProcess

NextEdit ==
    \/ \E stdin \in EditInputs : post_edit_verification(stdin)
    \/ cmd_tests_pass
    \/ cmd_tests_fail
    \/ \E stdin \in ToolInputs : sync_task_to_state(stdin)
    \/ check_step_validation("commit")

SpecEdit == InitEdit /\ [][NextEdit]_vars

\* the document records a code edit that is not older than the last marking of the tests
EditedSinceTests(doc) ==
    \E i \in DOMAIN doc.history :
        /\ doc.history[i].message[1] = "Code edited: "
        /\ \/ doc.verification.last_check = None
           \/ doc.history[i].timestamp >= doc.verification.last_check[1]

\* the last invocation marked the tests as passed
MarkedTestsPassed ==
    \/ last.op = "tests-pass"
    \/ /\ last.op = "sync"
       /\ last.arg # << >>
       /\ last.arg[2] = "completed"
       /\ InferredStep[last.arg[3]] = 9

\* C12: the post-edit hook leaves tests_passed false in memory and in the
\* saved document; the saved flag turns true again only by tests-pass or by
\* a completed task inferred as step 9; a commit check on a document whose
\* flag is false is denied; so while the document records an edit after the
\* last marking of the tests, can_commit denies.
C12_EditInvalidatesTests ==
    [][/\ (calls' = calls + 1 /\ last'.op = "post-edit") =>
             /\ ~Flag(state', "verification", "tests_passed")
             /\ ~Flag(_load_state(disk'), "verification", "tests_passed")
       /\ (/\ ~Flag(_load_state(disk), "verification", "tests_passed")
           /\ Flag(_load_state(disk'), "verification", "tests_passed")) => MarkedTestsPassed'
       /\ (/\ calls' = calls + 1
           /\ Checked("commit")'
           /\ ~Flag(_load_state(disk), "verification", "tests_passed")) => last'.exit = 1
       /\ EditedSinceTests(_load_state(disk')) =>
             /\ ~Flag(_load_state(disk'), "verification", "tests_passed")
             /\ ~can_commit(_load_state(disk'))[1]]_vars

C12_Witness ==
    /\ Checked("commit")
    /\ last.exit = 1
    /\ last.reason = <<"Tests must pass before commit (Step 9)">>
    /\ state.current_step = 15
    /\ Flag(state, "approvals", "human_review")
    /\ state.verification.last_check # None
    /\ EditedSinceTests(state)
    /\ calls = 3

\* the TEMPORAL_CONSTRAINTS entry of a gate-check action
ConstraintOf(action) ==
    TEMPORAL_CONSTRAINTS[IF action = "edit" THEN "edit_code" ELSE action]

\* what a named precondition says of the workflow: context_pack_exists is
\* taken as the stored flag or the file, the others as the stored flags;
\* nothing in the state records a commit
PreconditionHolds(doc, name) ==
    CASE name = "context_pack_exists" ->
             Flag(doc, "context", "context_pack_exists") \/ context_pack
      [] name = "tests_passed" -> Flag(doc, "verification", "tests_passed")
      [] name = "human_approved" -> Flag(doc, "approvals", "human_review")
      [] name = "task_selected" -> Flag(doc, "context", "task_selected")
      [] OTHER -> Get(doc, name, FALSE)

\* C13: for every action kind in edit, commit, push, implement, a gate check
\* that allows has found every precondition named for the action in
\* TEMPORAL_CONSTRAINTS true; so implement is denied while task_selected is
\* false and push is denied while nothing is committed.
C13_EveryPrecondition ==
    \A action \in Actions :
        (Checked(action) /\ last.exit = 0) =>
            LET requires == ConstraintOf(action).requires
            IN  \A i \in DOMAIN requires : PreconditionHolds(state, requires[i])

(***************************************************************************)
(* Processes followed one file operation at a time.  A process loads the   *)
(* state file when it starts and never reads it again, so what it will     *)
(* append and write is fixed by what it loaded: its handler is run on a    *)
(* manager of its own and the file operations are then done one by one.    *)
(* A state file is "absent", "ok" (a JSON document), "empty" (opened for   *)
(* writing, nothing written yet) or "corrupt" (bytes that do not parse);   *)
(* json.load raises JSONDecodeError on the last two.                       *)
(***************************************************************************)
Procs == {"p1", "p2"}

\* the invocations that log a history entry
Commands ==
    {[op |-> "set-step", arg |-> <<"8">>],
     [op |-> "approve", arg |-> << >>],
     [op |-> "revoke", arg |-> << >>],
     [op |-> "post-edit", arg |-> <<"app.py">>]}

\* the manager of a process that loaded doc, its writes still to be done
Private(doc) == [state |-> doc, disk |-> NoFile, history_file |-> << >>, backups |-> {}]

\* the lines _log_history wrote on the way to w
AppendOps(w) ==
    [i \in DOMAIN w.history_file |-> [do |-> "append", data |-> w.history_file[i]]]

\* save: open(STATE_FILE, 'w'), then json.dump
SaveOps(w) ==
    <<[do |-> "open", data |-> NoText], [do |-> "dump", data |-> w.disk.text]>>

\* the handler of cmd in a process that loaded doc at time t: the state it
\* ends with and its file operations in program order
Program(cmd, doc, t) ==
    LET manager == Private(doc)
    IN  CASE cmd.op = "set-step" ->
                 LET w == set_current_step(manager, ParseInt(cmd.arg), t)
                 IN  [state |-> w.state, ops |-> AppendOps(w) \o SaveOps(w)]
          [] cmd.op \in {"approve", "revoke"} ->
                 LET w == set_human_approval(manager, cmd.op = "approve", t)
                 IN  [state |-> w.state, ops |-> AppendOps(w) \o SaveOps(w)]
          [] cmd.op = "post-edit" ->
                 LET passed == Get(Get(doc, "verification", << >>), "tests_passed", FALSE)
                     invalidated == IF passed THEN set_tests_passed(manager, FALSE, t)
                                    ELSE manager
                     recorded == _log_history(invalidated, <<"Code edited: ", cmd.arg[1]>>, t)
                     saved == save(recorded, t)
                 IN  [state |-> saved.state,
                      ops |-> (IF passed THEN SaveOps(invalidated) ELSE << >>)
                                 \o AppendOps(recorded) \o SaveOps(saved)]

\* a faulty log: the file is opened with 'w', so the line replaces the log
append_line_truncating(file, line) == <<line>>

\* open(HISTORY_FILE, 'a') and the write of one line
append_line(file, line) == Append(file, line)

\* open(STATE_FILE, 'w')
open_for_writing(file) == [status |-> "empty", text |-> NoText]

\* json.dump through a handle opened at position 0: into the empty file it
\* leaves the document; over bytes another process wrote since the open it
\* leaves the document, or the document followed by the rest of a longer one
dump_outcomes(file, text) ==
    IF file.status = "empty"
    THEN {[status |-> "ok", text |-> text]}
    ELSE {[status |-> "ok", text |-> text], [status |-> "corrupt", text |-> NoText]}

process_starts(p, cmd) ==
    /\ p \notin DOMAIN running
    /\ calls < MaxCalls
    /\ LET doc == _load_state(disk)
           program == Program(cmd, doc, now)
       IN  running' = (p :> [cmd |-> cmd, started |-> now, loaded |-> doc,
                             state |-> program.state, ops |-> program.ops]) @@ running
    /\ calls' = calls + 1
    /\ tally' = [tally EXCEPT !.audited = @ + 1]
    /\ UNCHANGED <<disk, history_file, backups, context_pack, loaded, state, last>>

file_operation(p) ==
    /\ p \in DOMAIN running
    /\ running[p].ops # << >>
    /\ LET op == Head(running[p].ops)
       IN  /\ history_file' = IF op.do = "append" THEN append_line(history_file, op.data)
                              ELSE history_file
           /\ disk' \in CASE op.do = "open" -> {open_for_writing(disk)}
                          [] op.do = "dump" -> dump_outcomes(disk, op.data)
                          [] OTHER -> {disk}
    /\ running' = [running EXCEPT ![p].ops = Tail(@)]
    /\ UNCHANGED <<backups, context_pack, loaded, state, last, calls, tally>>

\* the process is gone, after its last statement (how = 0) or by a kill
Gone(p, how) ==
    /\ loaded' = running[p].loaded
    /\ state' = running[p].state
    /\ last' = [op |-> running[p].cmd.op, arg |-> running[p].cmd.arg,
                exit |-> how, reason |-> << >>]
    /\ running' = [q \in DOMAIN running \ {p} |-> running[q]]
    /\ UNCHANGED <<disk, history_file, backups, context_pack, calls, tally>>

process_exits(p) ==
    /\ p \in DOMAIN running
    /\ running[p].ops = << >>
    /\ Gone(p, 0)

\* SIGKILL at any point of the process
process_killed(p) ==
    /\ p \in DOMAIN running
    /\ Gone(p, 137)

\* the workflow w with no process in flight
Idle(w) ==
    /\ disk = w.disk
    /\ history_file = w.history_file
    /\ backups = w.backups
    /\ context_pack = FALSE
    /\ loaded = w.state
    /\ state = w.state
    /\ last = NoCall
    /\ calls = 0
    /\ tally = NoTally
    /\ running = NoProcess

(***************************************************************************)
(* One process at a time, which may be killed, on a workflow at step 0 or  *)
(* 8 with the tests marked or not.                                         *)
(***************************************************************************)
InitCrash ==
    \E step \in {0, 8}, tests \in BOOLEAN : Idle(Driven(step, tests, FALSE, FALSE, FALSE))

NextCrash ==
    \/ \E cmd \in Commands : process_starts("p1", cmd)
    \/ file_operation("p1")
    \/ process_exits("p1")
    \/ process_killed("p1")

SpecCrash == InitCrash /\ [][NextCrash]_vars

(***************************************************************************)
(* Two processes whose invocations overlap, on a workflow at step 8 with   *)
(* the tests marked as passed.                                             *)
(***************************************************************************)
RaceCommands == { cmd \in Commands : cmd.op # "revoke" }

InitRace == Idle(Driven(8, TRUE, FALSE, FALSE, FALSE))

NextRace ==
    \E p \in Procs :
        \/ \E cmd \in RaceCommands : process_starts(p, cmd)
        \/ file_operation(p)
        \/ process_exits(p)

SpecRace == InitRace /\ [][NextRace]_vars

\* C14: when a process is gone, killed or not, the state document is a
\* whole document, and each of current_step, approvals, verification,
\* context and current_bead_id that a load of it gives is either what the
\* process loaded or what it was saving.
C14_SaveIsAtomic ==
    (DOMAIN running = {} /\ last.op # "none") =>
        /\ disk.status = "ok"
        /\ \A key \in RoundTripKeys : _load_state(disk)[key] \in {loaded[key], state[key]}

\* the number of lines of the log written by the invocation that started at t
LinesOf(file, t) == Cardinality({ i \in DOMAIN file : file[i].timestamp.v = t })

\* the invocation that started at t is one of the processes and has not appended yet
PendingAppend(processes, t) ==
    \E p \in DOMAIN processes :
        /\ processes[p].started = t
        /\ \E i \in DOMAIN processes[p].ops : processes[p].ops[i].do = "append"

\* the line the process logs
LoggedLine(process) ==
    json_entry([timestamp |-> process.started,
                message |->
                    CASE process.cmd.op = "set-step" ->
                             <<"Step changed: ", ToString(process.loaded.current_step),
                               " -> ", ToString(ParseInt(process.cmd.arg))>>
                      [] process.cmd.op = "approve" -> <<"Human approval: ", "granted">>
                      [] process.cmd.op = "revoke" -> <<"Human approval: ", "revoked">>
                      [] process.cmd.op = "post-edit" ->
                             <<"Code edited: ", process.cmd.arg[1]>>])

\* C15: under every interleaving of two processes that each log a history
\* entry, no step removes or changes a line of the history log, and the log
\* holds the line of every invocation that has appended exactly once, as
\* the invocation wrote it, whatever the saves of the state document do.
C15_LogKeepsEveryEntry ==
    [][/\ IsPrefix(history_file, history_file')
       /\ \A t \in 1..calls' :
             LinesOf(history_file', t) = IF PendingAppend(running', t) THEN 0 ELSE 1
       /\ \A p \in DOMAIN running' :
             ~PendingAppend(running', running'[p].started) =>
                 \E i \in DOMAIN history_file' : history_file'[i] = LoggedLine(running'[p])]_vars

C15_Witness ==
    /\ DOMAIN running = {}
    /\ calls = 2
    /\ Len(history_file) = 3
    /\ disk.status = "ok"
    /\ Len(_load_state(disk).history) = 2

\* the kinds of logical mutation that lead from one state to another
Mutations(before, after) ==
    { kind \in {"step", "tests", "approval", "context pack", "task"} :
        CASE kind = "step" -> after.current_step # before.current_step
          [] kind = "tests" -> Flag(after, "verification", "tests_passed")
                                   # Flag(before, "verification", "tests_passed")
          [] kind = "approval" -> after.approvals # before.approvals
          [] kind = "context pack" -> Flag(after, "context", "context_pack_exists")
                                          # Flag(before, "context", "context_pack_exists")
          [] kind = "task" -> \/ Flag(after, "context", "task_selected")
                                    # Flag(before, "context", "task_selected")
                              \/ after.current_bead_id # before.current_bead_id }

\* C16: every invocation other than reset applies at most one of a step
\* change, a tests flag change, an approval change, a context-pack flag
\* change and a task selection to the state it loaded, and what a fresh load
\* finds after it is the state it ended with.
C16_OneMutationPerInvocation ==
    last.op \notin {"none", "reset"} =>
        /\ Cardinality(Mutations(loaded, state)) <= 1
        /\ \A key \in RoundTripKeys : _load_state(disk)[key] = state[key]

(***************************************************************************)
(* Damaged state files.  On an empty or unparseable text ("empty",         *)
(* "corrupt") json.load raises JSONDecodeError, which _load_state catches. *)
(* On bytes that are not text in the file's encoding ("undecodable") it    *)
(* raises UnicodeDecodeError, and on a JSON text that is not an object     *)
(* ("not_object": [], null, a number) the merge {**DEFAULT_STATE, **state} *)
(* raises TypeError; _load_state catches neither.                          *)
(***************************************************************************)
Damages == {"absent", "empty", "corrupt", "undecodable", "not_object"}

\* the exception that escapes _load_state, None when it returns
_load_state_raises(file) ==
    CASE file.status = "undecodable" -> Some("UnicodeDecodeError")
      [] file.status = "not_object" -> Some("TypeError")
      [] OTHER -> None

\* a process whose get_manager() raised: it ends with the traceback and exit code 1
get_manager_fails(op) ==
    /\ _load_state_raises(disk) # None
    /\ calls < MaxCalls
    /\ last' = [op |-> op, arg |-> << >>, exit |-> 1,
                reason |-> <<"Traceback">> \o _load_state_raises(disk)]
    /\ calls' = calls + 1
    /\ UNCHANGED <<disk, history_file, backups, context_pack, loaded, state, tally, running>>

\* a workflow whose state file is whole, missing or damaged
InitLoad ==
    \E step \in 0..MaxStep, tests \in BOOLEAN, damage \in Damages \cup {"ok"} :
        LET w == Driven(step, tests, FALSE, FALSE, FALSE)
        IN  Idle([w EXCEPT !.disk = IF damage = "ok" THEN @
                                    ELSE [status |-> damage, text |-> NoText]])

NextLoad ==
    \/ _load_state_raises(disk) = None /\ cmd_status
    \/ _load_state_raises(disk) = None /\ cmd_tests_pass
    \/ _load_state_raises(disk) = None /\ \E action \in Actions : check_step_validation(action)
    \/ \E op \in {"status", "tests-pass", "check"} : get_manager_fails(op)

SpecLoad == InitLoad /\ [][NextLoad]_vars

\* C17: a status command on any state file, damaged or missing, exits 0, and
\* when the file is not a whole document the state it loaded is the full
\* default state.
C17_LoadNeverFails ==
    last.op = "status" =>
        /\ last.exit = 0
        /\ disk.status # "ok" => loaded = DEFAULT_STATE

\* the subjects of the task-sync inputs that hold no keyword and no "step <integer>"
UnknownSubjects == {<<"r","a","n","d","o","m">>}

\* the last invocation synced a completed or started task with such a subject
SyncedUnknown ==
    /\ last.op = "sync"
    /\ last.arg # << >>
    /\ last.arg[2] \in {"completed", "in_progress"}
    /\ last.arg[3] \in UnknownSubjects

\* C18: a task-sync of a completed or started task whose subject holds no
\* keyword and no step pattern infers -1, leaves current_step as loaded, in
\* memory and in the saved document, and adds no entry to the history, in
\* memory or in the log.
C18_UnknownTaskKeepsStep ==
    [][(calls' = calls + 1 /\ SyncedUnknown') =>
          /\ InferredStep[last'.arg[3]] = -1
          /\ state'.current_step = loaded'.current_step
          /\ _load_state(disk').current_step = _load_state(disk).current_step
          /\ state'.history = loaded'.history
          /\ _load_state(disk').history = _load_state(disk).history
          /\ history_file' = history_file]_vars

C18_Witness ==
    /\ SyncedUnknown
    /\ last.arg[2] = "in_progress"
    /\ loaded.current_step = 8
    /\ state.current_step = 8
    /\ loaded.current_bead_id = None
    /\ state.current_bead_id = Some("T1")
    /\ _load_state(disk).current_bead_id = Some("T1")

(***************************************************************************)
(* The inference on its own: task subjects made of one to MaxWords words.  *)
(* A word is given with what it holds: `first` is the place in             *)
(* TASK_TO_STEP of the first declared keyword that occurs in it (0: none), *)
(* `number` the integer of a "step <integer>" in it (-1: none).            *)
(***************************************************************************)
Vocabulary ==
    {[chars |-> <<"s","p","e","c",".","m","d">>,
      first |-> 3, number |-> -1],
     [chars |-> <<"P","l","a","n">>,
      first |-> 4, number |-> -1],
     [chars |-> <<"C","o","n","t","e","s","t">>,
      first |-> 10, number |-> -1],
     [chars |-> <<"d","e","b","u","g","g","i","n","g">>,
      first |-> 13, number |-> -1],
     [chars |-> <<"R","E","V","I","E","W">>,
      first |-> 14, number |-> -1],
     [chars |-> <<"H","u","m","a","n">>,
      first |-> 15, number |-> -1],
     [chars |-> <<"m","e","r","g","e">>,
      first |-> 19, number |-> -1],
     [chars |-> <<"S","t","e","p"," ","1","1">>,
      first |-> 0, number |-> 11],
     [chars |-> <<"s","t","e","p","7">>,
      first |-> 0, number |-> 7],
     [chars |-> <<"r","a","n","d","o","m">>,
      first |-> 0, number |-> -1]}

WordLists == UNION { [1..n -> Vocabulary] : n \in 1..MaxWords }

\* the words joined by single spaces
RECURSIVE SubjectOf(_)
SubjectOf(words) ==
    IF Len(words) = 1 THEN words[1].chars
    ELSE SubjectOf(SubSeq(words, 1, Len(words) - 1)) \o <<" ">> \o words[Len(words)].chars

InitInfer ==
    /\ disk = NoFile
    /\ history_file = << >>
    /\ backups = {}
    /\ context_pack = FALSE
    /\ loaded = DEFAULT_STATE
    /\ state = DEFAULT_STATE
    /\ \E words \in WordLists :
          last = [op |-> "task", arg |-> words, exit |-> 0, reason |-> << >>]
    /\ calls = 0
    /\ tally = NoTally
    /\ running = NoProcess

\* a caller asks for the step of the task subject
infers ==
    /\ last.op = "task"
    /\ last' = [last EXCEPT !.op = "infer",
                            !.exit = infer_step_from_task(SubjectOf(last.arg)),
                            !.reason = SubjectOf(last.arg)]
    /\ UNCHANGED <<disk, history_file, backups, context_pack, loaded, state, calls, tally,
                   running>>

NextInfer == infers

SpecInfer == InitInfer /\ [][NextInfer]_vars

\* what the words say the inference returns: the step of the first declared
\* keyword among those that occur, else the integer of the leftmost step
\* pattern, else -1
StepOfWords(words) ==
    LET firsts == { words[i].first : i \in DOMAIN words } \ {0}
        numbered == { i \in DOMAIN words : words[i].number >= 0 }
    IN  IF firsts # {}
        THEN TASK_TO_STEP[CHOOSE k \in firsts : \A m \in firsts : k <= m].step
        ELSE IF numbered # {}
        THEN words[CHOOSE i \in numbered : \A m \in numbered : i <= m].number
        ELSE -1

\* C19: on a subject whose words hold keywords, the inference returns the
\* step of the keyword declared first, wherever it stands in the text and
\* whether or not a later declared keyword or a step pattern occurs too;
\* with no keyword it returns the integer of the step pattern; with neither
\* it returns -1.
C19_FirstDeclaredKeywordWins ==
    last.op = "infer" => last.exit = StepOfWords(last.arg)

C19_Witness ==
    /\ last.op = "infer"
    /\ Len(last.arg) = 2
    /\ last.arg[1].number = 11
    /\ last.arg[2].first = 19
    /\ last.exit = 15

(***************************************************************************)
(* set-step on a workflow at any step with any flags.                      *)
(***************************************************************************)
InitStep ==
    \E step \in 0..MaxStep, tests \in BOOLEAN, approval \in BOOLEAN,
       pack \in BOOLEAN, task \in BOOLEAN :
        Idle(Driven(step, tests, approval, pack, task))

NextStep ==
    \E step_arg \in StepArgs : cmd_set_step(step_arg)

SpecStep == InitStep /\ [][NextStep]_vars

\* the parts of the state that a step change leaves alone
StepFrame == {"approvals", "verification", "context", "current_bead_id"}

\* C20: from every state, set_current_step(n) with 0 <= n <= 15 sets
\* current_step to n, appends the one entry "old -> n" to the history and
\* to the log (also when old = n), saves, and leaves approvals,
\* verification, context and current_bead_id as they were; the set-step
\* command with such an n exits 0 having done so.
C20_SetStepUnconditional ==
    /\ \A n \in 0..MaxStep :
          LET manager == get_manager
              w == set_current_step(manager, n, now)
              entry == [timestamp |-> now,
                        message |-> <<"Step changed: ",
                                      ToString(manager.state.current_step),
                                      " -> ", ToString(n)>>]
          IN  /\ w.state.current_step = n
              /\ w.state.history = Append(manager.state.history, entry)
              /\ w.history_file = Append(history_file, json_entry(entry))
              /\ w.disk.status = "ok"
              /\ _load_state(w.disk).current_step = n
              /\ _load_state(w.disk).history = w.state.history
              /\ \A key \in StepFrame :
                    /\ w.state[key] = manager.state[key]
                    /\ _load_state(w.disk)[key] = manager.state[key]
    /\ (last.op = "set-step" /\ IsInt(last.arg) /\ ParseInt(last.arg) \in 0..MaxStep) =>
          /\ last.exit = 0
          /\ state.current_step = ParseInt(last.arg)
          /\ Len(state.history) = Len(loaded.history) + 1
          /\ \A key \in StepFrame : state[key] = loaded[key]

C20_Witness ==
    /\ last.op = "set-step"
    /\ last.exit = 0
    /\ loaded.current_step = 8
    /\ state.current_step = 8
    /\ Len(state.history) = Len(loaded.history) + 1
    /\ Flag(state, "verification", "tests_passed")
    /\ Flag(state, "approvals", "human_review")
    /\ ~Flag(state, "context", "context_pack_exists")
    /\ state.current_bead_id = Some("T1")

(***************************************************************************)
(* The flag commands on a workflow at step 0, 9 or 15 with any flags.      *)
(***************************************************************************)
InitFlags ==
    \E step \in {0, 9, 15}, tests \in BOOLEAN, approval \in BOOLEAN,
       pack \in BOOLEAN, task \in BOOLEAN :
        Idle(Driven(step, tests, approval, pack, task))

NextFlags ==
    \/ cmd_approve
    \/ cmd_revoke
    \/ cmd_tests_pass
    \/ cmd_tests_fail
    \/ cmd_context_pack
    \/ \E task_id \in TaskIds : cmd_select_task(task_id)

SpecFlags == InitFlags /\ [][NextFlags]_vars

\* w differs from the manager m in the keys `own` at most, and is saved
FlagFrame(m, w, own) ==
    /\ w.state.current_step = m.state.current_step
    /\ \A key \in StepFrame \ own : w.state[key] = m.state[key]
    /\ w.backups = m.backups
    /\ w.disk.status = "ok"
    /\ \A key \in RoundTripKeys \cup {"history"} : _load_state(w.disk)[key] = w.state[key]

\* w logged nothing on the way from m
Unlogged(m, w) ==
    /\ w.state.history = m.state.history
    /\ w.history_file = m.history_file

\* C21: from every state each flag setter sets its own flag (the tests
\* setter stamps last_check, the task setter names the bead), saves, and
\* leaves current_step and everything the other setters own as it was;
\* set_human_approval appends the one entry "granted" or "revoked" to the
\* in-memory history and to the log, the other three append nothing.
C21_FlagSettersFrame ==
    LET m == get_manager
    IN  /\ \A value \in BOOLEAN :
              LET tested == set_tests_passed(m, value, now)
                  approved == set_human_approval(m, value, now)
                  packed == set_context_pack_exists(m, value, now)
                  chosen == set_task_selected(m, value, Some("T2"), now)
                  unnamed == set_task_selected(m, value, None, now)
                  entry == [timestamp |-> now,
                            message |-> <<"Human approval: ",
                                          IF value THEN "granted" ELSE "revoked">>]
              IN  /\ FlagFrame(m, tested, {"verification"})
                  /\ tested.state.verification =
                         [m.state.verification EXCEPT !.tests_passed = value,
                                                      !.last_check = Some(now)]
                  /\ Unlogged(m, tested)
                  /\ FlagFrame(m, approved, {"approvals"})
                  /\ approved.state.approvals =
                         [m.state.approvals EXCEPT !.human_review = value]
                  /\ approved.state.history = Append(m.state.history, entry)
                  /\ approved.history_file = Append(m.history_file, json_entry(entry))
                  /\ FlagFrame(m, packed, {"context"})
                  /\ packed.state.context =
                         [m.state.context EXCEPT !.context_pack_exists = value]
                  /\ Unlogged(m, packed)
                  /\ FlagFrame(m, chosen, {"context", "current_bead_id"})
                  /\ chosen.state.context = [m.state.context EXCEPT !.task_selected = value]
                  /\ chosen.state.current_bead_id = Some("T2")
                  /\ Unlogged(m, chosen)
                  /\ FlagFrame(m, unnamed, {"context"})
                  /\ unnamed.state.context = chosen.state.context
                  /\ Unlogged(m, unnamed)
        /\ last.op \in {"approve", "revoke"} =>
              /\ Len(state.history) = Len(loaded.history) + 1
              /\ state.current_step = loaded.current_step
              /\ \A key \in StepFrame \ {"approvals"} : state[key] = loaded[key]
        /\ last.op \in {"tests-pass", "tests-fail", "context-pack", "select-task"} =>
              /\ state.history = loaded.history
              /\ state.current_step = loaded.current_step
              /\ state.approvals = loaded.approvals

C21_Witness ==
    /\ last.op = "tests-fail"
    /\ Flag(loaded, "verification", "tests_passed")
    /\ ~Flag(state, "verification", "tests_passed")
    /\ Flag(state, "approvals", "human_review")
    /\ Flag(state, "context", "context_pack_exists")
    /\ Flag(state, "context", "task_selected")
    /\ state.current_step = 9
    /\ state.history = loaded.history
    /\ Len(history_file) = 2
    /\ calls = 2

(***************************************************************************)
(* A state file written by hand or by an older version: a whole document   *)
(* without some top-level keys and without some flags of its sub-objects.  *)
(***************************************************************************)
LegacyKeys == {"current_step", "verification", "approvals", "context", "history"}

LegacyFlags == {"tests_passed", "human_review", "context_pack_exists"}

Partial(text, dropped, missing) ==
    [key \in DOMAIN text \ dropped |->
        IF key \in ObjectKeys
        THEN [k \in DOMAIN text[key] \ missing |-> text[key][k]]
        ELSE text[key]]

InitLegacy ==
    \E step \in {8, 15}, tests \in BOOLEAN, approval \in BOOLEAN,
       dropped \in SUBSET LegacyKeys, missing \in SUBSET LegacyFlags :
        LET w == Driven(step, tests, approval, FALSE, TRUE)
            file == [status |-> "ok", text |-> Partial(w.disk.text, dropped, missing)]
        IN  Idle(Reloaded([w EXCEPT !.disk = file]))

NextLegacy ==
    \/ \E action \in Actions : check_step_validation(action)
    \/ cmd_tests_pass
    \/ cmd_approve

SpecLegacy == InitLegacy /\ [][NextLegacy]_vars

\* C22: the state a process loads from a document holds, for every
\* top-level key, the document's value as it is when the document has the
\* key and the default when it has not; a sub-object the document has keeps
\* exactly its own inner keys; and a gate reads a missing inner flag as
\* false: without tests_passed or without human_review the commit check
\* exits 1, without context_pack_exists (and without the file) so does the
\* edit check.
C22_TwoLevelMerge ==
    LET document == json_load(disk.text)
        manager == get_manager
    IN  /\ disk.status = "ok" =>
              /\ DOMAIN manager.state = DOMAIN DEFAULT_STATE \cup DOMAIN document
              /\ \A key \in DOMAIN manager.state :
                     manager.state[key] = IF key \in DOMAIN document THEN document[key]
                                          ELSE DEFAULT_STATE[key]
              /\ \A key \in ObjectKeys \cap DOMAIN document :
                     DOMAIN manager.state[key] = DOMAIN document[key]
        /\ ("tests_passed" \notin DOMAIN manager.state.verification
               \/ "human_review" \notin DOMAIN manager.state.approvals)
              => ~can_commit(manager.state)[1]
        /\ ("context_pack_exists" \notin DOMAIN manager.state.context /\ ~context_pack)
              => ~can_edit_code(manager.state, context_pack)[1]
        /\ (Checked("commit") /\ ("tests_passed" \notin DOMAIN loaded.verification
                                    \/ "human_review" \notin DOMAIN loaded.approvals))
              => last.exit = 1
        /\ (Checked("edit") /\ "context_pack_exists" \notin DOMAIN loaded.context
                             /\ ~context_pack)
              => last.exit = 1

C22_Witness ==
    /\ Checked("commit")
    /\ last.exit = 1
    /\ last.reason = <<"Human review approval required before commit (Step 12)">>
    /\ loaded.current_step = 15
    /\ Flag(loaded, "verification", "tests_passed")
    /\ DOMAIN loaded.approvals = {"spec_md", "plan_md"}
    /\ DOMAIN json_load(disk.text).approvals = {"spec_md", "plan_md"}
    /\ "history" \notin DOMAIN json_load(disk.text)
    /\ loaded.history = << >>

\* the step is the json.dump of process p
Dumps(p, processes) ==
    /\ p \in DOMAIN running
    /\ running[p].ops # << >>
    /\ Head(running[p].ops).do = "dump"
    /\ p \in DOMAIN processes
    /\ processes[p].ops = Tail(running[p].ops)

\* C23: with two unlocked invocations in flight, every json.dump of a
\* process leaves the state file holding exactly the document that process
\* dumped, so that once both are done the file is the whole document of the
\* one that saved last and never a mix of the two.
C23_LastWriterWins ==
    [][/\ \A p \in Procs :
              Dumps(p, running') =>
                  disk' = [status |-> "ok", text |-> Head(running[p].ops).data]
       /\ (\A p \in DOMAIN running' : running'[p].ops = << >>) => disk'.status = "ok"]_vars

(***************************************************************************)
(* The task-sync hook on a workflow at any step with any flags.            *)
(***************************************************************************)
NextSync == \E stdin \in ToolInputs : sync_task_to_state(stdin)

SpecSync == InitStep /\ [][NextSync]_vars

\* the last invocation synced a task of this status
Synced(new_status) ==
    /\ last.op = "sync"
    /\ last.arg # << >>
    /\ last.arg[2] = new_status

\* C24: a task-sync of a completed task leaves current_step at the inferred
\* step when that is greater than the loaded one and at most 15, and as
\* loaded otherwise, so never lower; a task-sync of a started task leaves it
\* at the inferred step whenever that is within 0..15, lower or not, and as
\* loaded otherwise; the saved document holds the same step.
C24_CompletedNeverLowersStep ==
    [][(calls' = calls + 1 /\ last'.op = "sync" /\ last'.arg # << >>) =>
          LET inferred_step == InferredStep[last'.arg[3]]
              before == loaded'.current_step
              after == state'.current_step
          IN  /\ before = _load_state(disk).current_step
              /\ after = _load_state(disk').current_step
              /\ Synced("completed")' =>
                    /\ after >= before
                    /\ after = IF inferred_step > before /\ inferred_step \in 0..MaxStep
                               THEN inferred_step ELSE before
              /\ Synced("in_progress")' =>
                    after = IF inferred_step \in 0..MaxStep THEN inferred_step ELSE before
              /\ ~Synced("completed")' /\ ~Synced("in_progress")' => after = before]_vars

C24_Witness ==
    /\ Synced("completed")
    /\ InferredStep[last.arg[3]] = 9
    /\ loaded.current_step = 15
    /\ state.current_step = 15
    /\ _load_state(disk).current_step = 15
    /\ ~Flag(loaded, "verification", "tests_passed")
    /\ Flag(state, "verification", "tests_passed")

\* C25: in every reachable state, when can_push allows on the state a
\* process loads, tests_passed and human_review are true in it and
\* can_commit allows as well; and a push check that exits 0 was made on
\* such a state.
C25_PushImpliesCommitGate ==
    LET manager == get_manager
    IN  /\ can_push(manager.state)[1] =>
              /\ Flag(manager.state, "verification", "tests_passed")
              /\ Flag(manager.state, "approvals", "human_review")
              /\ can_commit(manager.state)[1]
        /\ (Checked("push") /\ last.exit = 0) =>
              /\ Flag(loaded, "verification", "tests_passed")
              /\ Flag(loaded, "approvals", "human_review")
              /\ can_commit(loaded)[1]
====
